---- MODULE Spec2Model ----
(***************************************************************************)
(* ExcelTransform: the customs export-declaration sheet transformer.       *)
(*                                                                         *)
(* The repository holds two near-duplicate programs: ExcelTransform.py     *)
(* (process_file + main over SEARCH_DIRS) and ExcleTransform.py (a scan    *)
(* loop at module level over BASE_DIR).  The variable `variant' says which *)
(* of the two is running.                                                  *)
(*                                                                         *)
(* Text is a sequence of tokens.  A token is one character ("1", ".", " ") *)
(* or an atomic word standing for a fixed run of characters that holds no  *)
(* whitespace and none of the characters the code looks at ("XiangHao",    *)
(* "USD", "Unnamed").  A cell is Null (NaN/None), a string or an integer;  *)
(* a float cell is held as the string of its display text.                 *)
(***************************************************************************)
EXTENDS Integers, Sequences, FiniteSets, TLC

VARIABLES
    variant,    \* "ExcelTransform" or "ExcleTransform": the program that runs
    arg,        \* the argument of a function called on its own
    ret,        \* its return value: Pending before the call, Returned(v) after it
    fs,         \* the file system: path -> entry
    unwritable, \* the paths the process cannot open for writing
    pc,         \* the scan's position: "idle", "scan" or "done"
    todo,       \* the glob entries of the current scan not yet visited
    results,    \* the list `results' of status lines
    run,        \* how many scans have ended
    search_dirs,\* SEARCH_DIRS (ExcelTransform.py) or <<BASE_DIR>> (ExcleTransform.py)
    base,       \* the position in search_dirs of the directory being scanned
    visited,    \* history: per ended or running scan, the files handed to process_file
    fsAtEnd     \* history: per ended scan, the file system when it ended

scanVars == <<fs, unwritable, pc, todo, results, run, search_dirs, base, visited, fsAtEnd>>

vars == <<variant, arg, ret, scanVars>>

Variants == {"ExcelTransform", "ExcleTransform"}

(***************************************************************************)
(* Cells and text                                                          *)
(***************************************************************************)
Digits == {"0", "1", "2", "3", "4", "5", "6", "7", "8", "9"}

DigitVal(d) ==
    CASE d = "0" -> 0 [] d = "1" -> 1 [] d = "2" -> 2 [] d = "3" -> 3
      [] d = "4" -> 4 [] d = "5" -> 5 [] d = "6" -> 6 [] d = "7" -> 7
      [] d = "8" -> 8 [] d = "9" -> 9

DigitChar(n) ==
    CASE n = 0 -> "0" [] n = 1 -> "1" [] n = 2 -> "2" [] n = 3 -> "3"
      [] n = 4 -> "4" [] n = 5 -> "5" [] n = 6 -> "6" [] n = 7 -> "7"
      [] n = 8 -> "8" [] n = 9 -> "9"

\* The characters of the model that str.strip() and the regex class \s take
\* for whitespace.
Whitespace == {" ", "\t"}

Null == [t |-> "null", s |-> <<>>, n |-> 0]
StrCell(s) == [t |-> "str", s |-> s, n |-> 0]
IntCell(n) == [t |-> "int", s |-> <<>>, n |-> n]

\* pd.isna(v)
IsNa(v) == v.t = "null"

\* str(n) of a non-negative integer
RECURSIVE StrOfNat(_)
StrOfNat(n) ==
    IF n < 10 THEN <<DigitChar(n)>>
    ELSE Append(StrOfNat(n \div 10), DigitChar(n % 10))

\* str(v) of a cell that is not NaN
PyStr(v) ==
    IF v.t = "int"
    THEN (IF v.n < 0 THEN <<"-">> \o StrOfNat(-v.n) ELSE StrOfNat(v.n))
    ELSE v.s

RECURSIVE LStrip(_)
LStrip(s) ==
    IF s # <<>> /\ Head(s) \in Whitespace THEN LStrip(Tail(s)) ELSE s

RECURSIVE RStrip(_)
RStrip(s) ==
    IF s # <<>> /\ s[Len(s)] \in Whitespace
    THEN RStrip(SubSeq(s, 1, Len(s) - 1)) ELSE s

\* str.strip()
Strip(s) == RStrip(LStrip(s))

\* to_str, on one cell of the Series: astype(object).fillna('') then str, strip
to_str(v) == IF IsNa(v) THEN <<>> ELSE Strip(PyStr(v))

\* str.lower() of one token
LowerTok(c) ==
    CASE c \in {"Unnamed", "UNNAMED", "unnamed"} -> "unnamed"
      [] c = "USD" -> "usd"
      [] c = "A" -> "a"
      [] c = "N" -> "n"
      [] OTHER -> c

\* s.lower().startswith('unnamed')
LowerStartsWithUnnamed(s) == s # <<>> /\ LowerTok(Head(s)) = "unnamed"

(***************************************************************************)
(* Money normalization                                                     *)
(***************************************************************************)
RECURSIVE RemoveAll(_, _)
RemoveAll(s, drop) ==
    IF s = <<>> THEN <<>>
    ELSE IF Head(s) \in drop THEN RemoveAll(Tail(s), drop)
    ELSE <<Head(s)>> \o RemoveAll(Tail(s), drop)

\* .str.replace(r'[,$\s]', '', regex=True).str.replace('$', '', regex=False)
StripMoneyChars(s) == RemoveAll(RemoveAll(s, {",", "$"} \cup Whitespace), {"$"})

AllDigits(s) == \A i \in 1..Len(s) : s[i] \in Digits

RECURSIVE DigitPrefixLen(_)
DigitPrefixLen(s) ==
    IF s # <<>> /\ Head(s) \in Digits THEN 1 + DigitPrefixLen(Tail(s)) ELSE 0

Unsigned(x) == IF x # <<>> /\ Head(x) \in {"+", "-"} THEN Tail(x) ELSE x

\* _num_re without the alternative \.\d+ : digits are required before the point.
NumReMatchDigitsFirst(x) ==
    LET b == Unsigned(x)
        k == DigitPrefixLen(b)
        rest == SubSeq(b, k + 1, Len(b))
    IN  k >= 1 /\ (rest = <<>> \/ (Head(rest) = "." /\ AllDigits(Tail(rest))))

\* _num_re.match(x):  ^[+-]?(?:\d+(?:\.\d*)?|\.\d+)$
NumReMatch(x) ==
    LET b == Unsigned(x)
        k == DigitPrefixLen(b)
        rest == SubSeq(b, k + 1, Len(b))
    IN  \/ k >= 1 /\ (rest = <<>> \/ (Head(rest) = "." /\ AllDigits(Tail(rest))))
        \/ k = 0 /\ rest # <<>> /\ Head(rest) = "."
                 /\ Len(rest) >= 2 /\ AllDigits(Tail(rest))

RECURSIVE NatOf(_)
NatOf(ds) ==
    IF ds = <<>> THEN 0
    ELSE 10 * NatOf(SubSeq(ds, 1, Len(ds) - 1)) + DigitVal(ds[Len(ds)])

AllZero(ds) == \A i \in 1..Len(ds) : ds[i] = "0"

\* f"{float(x):.2f}" for x matching _num_re: the value rounded to hundredths.
\* The digits after the second decimal decide the rounding.  When they are
\* exactly 5000.. the code rounds the binary double nearest to x, which lies
\* on either side of the tie; for a double-representable x that is half-even,
\* as written here, and no input the specifications draw is any other tie.
Format2f(x) ==
    LET b == Unsigned(x)
        k == DigitPrefixLen(b)
        frac == SubSeq(b, k + 2, Len(b))
        f1 == IF Len(frac) >= 1 THEN DigitVal(frac[1]) ELSE 0
        f2 == IF Len(frac) >= 2 THEN DigitVal(frac[2]) ELSE 0
        rem == SubSeq(frac, 3, Len(frac))
        floorc == NatOf(SubSeq(b, 1, k)) * 100 + f1 * 10 + f2
        up == IF rem = <<>> THEN FALSE
              ELSE IF DigitVal(rem[1]) > 5 THEN TRUE
              ELSE IF DigitVal(rem[1]) < 5 THEN FALSE
              ELSE IF ~AllZero(Tail(rem)) THEN TRUE
              ELSE floorc % 2 = 1
        cents == IF up THEN floorc + 1 ELSE floorc
        sign == IF x # <<>> /\ Head(x) = "-" THEN <<"-">> ELSE <<>>
    IN  sign \o StrOfNat(cents \div 100)
             \o <<".", DigitChar((cents % 100) \div 10), DigitChar(cents % 10)>>

\* fmt, the function clean_money_keep2 applies to every stripped text
fmt(x) == IF NumReMatch(x) THEN Format2f(x) ELSE x

\* clean_money_keep2, on one cell of the Series
clean_money_keep2(v) == fmt(StripMoneyChars(to_str(v)))

(***************************************************************************)
(* Header definitions.  The Chinese literals are written in pinyin:         *)
(* XiangHao = item no., ShangPinBianMa = commodity code, ShangPinMingCheng  *)
(* = commodity name, YongTuGuiGeXingHaoDeng = use/spec/model,               *)
(* ShuLiangJiDanWei = quantity and unit, JingNeiHuoYuanDi = domestic        *)
(* source, ZuiZhongMuDiGuo = final destination, YuanChanGuo = origin,       *)
(* DanJia = unit price, ZongJia = total price, BiZhi = currency,            *)
(* PinPaiLeiXing = brand type, ChuKouXiangHuiQingKuang = export preference, *)
(* MeiYuan = the relabel of USD, ZhaoZhang = the constant duty status.      *)
(***************************************************************************)
IN_HEADERS_EXPECT ==
    << <<"XiangHao">>, <<"ShangPinBianMa">>, <<"ShangPinMingCheng">>,
       <<"YongTuGuiGeXingHaoDeng">>, <<"ShuLiangJiDanWei">>,
       <<"JingNeiHuoYuanDi">>, <<"ZuiZhongMuDiGuo">>, <<"YuanChanGuo">>,
       <<"DanJia">>, <<"ZongJia">>, <<"BiZhi">>, <<"PinPaiLeiXing">>,
       <<"ChuKouXiangHuiQingKuang">> >>

OUT_HEADERS ==
    << <<"XiangHao">>, <<"ShangPinBianHao">>,
       <<"ShangPinMingChengJiGuiGeXingHao">>, <<"ShuLiangJiDanWei">>,
       <<"DanJia/ZongJia/BiZhi">>, <<"YuanChanGuo(DiQu)">>,
       <<"ZuiZhongMuDiGuo(DiQu)">>, <<"JingNeiHuoYuanDi">>, <<"ZhengMian">> >>

\* base_cols of process_file
base_cols ==
    { <<"XiangHao">>, <<"ShangPinBianMa">>, <<"ShangPinMingCheng">>,
      <<"YongTuGuiGeXingHaoDeng">>, <<"JingNeiHuoYuanDi">>,
      <<"ZuiZhongMuDiGuo">>, <<"YuanChanGuo">>, <<"DanJia">>, <<"ZongJia">>,
      <<"BiZhi">> }

(***************************************************************************)
(* Header locator.  A sheet (the DataFrame read with header=None) is a      *)
(* sequence of rows of equal width; DataFrame row i is sheet[i + 1].        *)
(***************************************************************************)
\* normalize_cell that forgets the 'unnamed' placeholders.
normalize_cell_keep_unnamed(v) ==
    IF IsNa(v) THEN <<>> ELSE Strip(PyStr(v))

normalize_cell(v) ==
    LET s == IF IsNa(v) THEN <<>> ELSE Strip(PyStr(v))
    IN  IF s = <<>> \/ LowerStartsWithUnnamed(s) THEN <<>> ELSE s

RECURSIVE normalize_row(_)
normalize_row(values) ==
    IF values = <<>> THEN <<>>
    ELSE IF normalize_cell(Head(values)) # <<>>
         THEN <<normalize_cell(Head(values))>> \o normalize_row(Tail(values))
         ELSE normalize_row(Tail(values))

Raised(e) == [exc |-> e, val |-> <<>>]
Value(v) == [exc |-> "none", val |-> v]

\* find_header_row: the index, or KeyError
find_header_row(df, expected_headers) ==
    LET hits == {i \in 0..(Len(df) - 1) : normalize_row(df[i + 1]) = expected_headers}
    IN  IF hits = {} THEN Raised("KeyError: header not found")
        ELSE Value(CHOOSE i \in hits : \A j \in hits : i <= j)

(***************************************************************************)
(* Data block extraction and formatting                                     *)
(***************************************************************************)
\* in_all.dropna(how='all').index.max(), for a sheet with a non-null cell
last_non_empty(df) ==
    LET keep == {i \in 0..(Len(df) - 1) : \E j \in 1..Len(df[i + 1]) : ~IsNa(df[i + 1][j])}
    IN  CHOOSE i \in keep : \A j \in keep : j <= i

\* end_idx that keeps the trailing row.
end_idx_keep_last(df) == last_non_empty(df)

end_idx(df) == last_non_empty(df) - 1

\* df.iloc[a:b] for 0 <= a, 0 <= b
iloc(df, a, b) == IF b > a THEN SubSeq(df, a + 1, b) ELSE <<>>

\* The positions (0-based) of the raw header cells equal to the label.
LabelPositions(header_row_vals, label) ==
    {j \in 0..(Len(header_row_vals) - 1) : header_row_vals[j + 1] = StrCell(label)}

\* header_row_vals.index(label), where the label is present
ListIndex(header_row_vals, label) ==
    CHOOSE j \in LabelPositions(header_row_vals, label) :
        \A k \in LabelPositions(header_row_vals, label) : j <= k

\* A relabel that replaces USD wherever it occurs in the text.
RECURSIVE replace_usd_anywhere(_)
replace_usd_anywhere(s) ==
    IF s = <<>> THEN <<>>
    ELSE (IF Head(s) = "USD" THEN <<"MeiYuan">> ELSE <<Head(s)>>)
         \o replace_usd_anywhere(Tail(s))

currency_anywhere(v) == replace_usd_anywhere(to_str(v))

\* to_str(...).replace({'USD': 'MeiYuan'}): whole values only
currency(v) == IF to_str(v) = <<"USD">> THEN <<"MeiYuan">> ELSE to_str(v)

\* price_block: ExcelTransform.py joins with ' ', ExcleTransform.py with ' / '
price_block(prog, unit_price, total_price, cur) ==
    clean_money_keep2(unit_price)
        \o (IF prog = "ExcelTransform" THEN <<" ">> ELSE <<" ", "/", " ">>)
        \o clean_money_keep2(total_price) \o <<" ">> \o currency(cur)

\* One row of out_df[OUT_HEADERS], from one row of the data block.
OutRecord(prog, header_row_vals, row) ==
    LET col(label) == row[ListIndex(header_row_vals, label) + 1]
        qty_col == ListIndex(header_row_vals, <<"ShuLiangJiDanWei">>)
        unit_col == qty_col + 1
    IN  << to_str(col(<<"XiangHao">>)),
           to_str(col(<<"ShangPinBianMa">>)),
           to_str(col(<<"ShangPinMingCheng">>)) \o <<" ">>
               \o to_str(col(<<"YongTuGuiGeXingHaoDeng">>)),
           to_str(row[qty_col + 1]) \o to_str(row[unit_col + 1]),
           price_block(prog, col(<<"DanJia">>), col(<<"ZongJia">>), col(<<"BiZhi">>)),
           to_str(col(<<"YuanChanGuo">>)),
           to_str(col(<<"ZuiZhongMuDiGuo">>)),
           to_str(col(<<"JingNeiHuoYuanDi">>)),
           <<"ZhaoZhang">> >>

\* process_file from the sheet read to out_df: the records, or the exception
Transform(prog, in_all) ==
    LET found == find_header_row(in_all, IN_HEADERS_EXPECT)
        row_in_header == found.val
        header_row_vals == in_all[row_in_header + 1]
        in_data == iloc(in_all, row_in_header + 1, end_idx(in_all) + 1)
    IN  IF found.exc # "none" THEN Raised(found.exc)
        ELSE IF LabelPositions(header_row_vals, <<"ShuLiangJiDanWei">>) = {}
        THEN Raised("ValueError: not in list")
        ELSE IF \E c \in base_cols : LabelPositions(header_row_vals, c) = {}
        THEN Raised("KeyError: not in index")
        ELSE Value([k \in 1..Len(in_data) |-> OutRecord(prog, header_row_vals, in_data[k])])

(***************************************************************************)
(* Files.  A path is <<directory, name>>; a name is a sequence of tokens    *)
(* ("a", ".xls", "x" is a.xlsx).  The file system maps each existing path   *)
(* to its entry.  Names compare exactly, as on a case-sensitive file system.*)
(***************************************************************************)
Dir == [kind |-> "dir", body |-> <<>>]
Corrupt == [kind |-> "corrupt", body |-> <<>>]      \* no workbook can be read from it
NoSheetBook == [kind |-> "nosheet", body |-> <<>>]  \* a workbook without the sheet MianDan
Book(sheet) == [kind |-> "book", body |-> sheet]    \* a workbook whose sheet MianDan is `sheet'
OutBook(rows) == [kind |-> "out", body |-> rows]    \* what to_excel(index=False) writes

TransformedSuffix == <<"_transformed", ".xls", "x">>

\* fnmatch of the name against '*.xls*'
glob_match(name) == \E i \in 1..Len(name) : name[i] = ".xls"

\* f.name.endswith('_transformed.xlsx')
ends_transformed(name) ==
    /\ Len(name) >= Len(TransformedSuffix)
    /\ SubSeq(name, Len(name) - Len(TransformedSuffix) + 1, Len(name)) = TransformedSuffix

\* f.name.startswith('~$')
starts_lock(name) == name # <<>> /\ name[1] = "~$"

\* Path.stem: the name without its last suffix
stem(name) ==
    LET dots == {i \in 1..Len(name) : name[i] \in {".xls", ".txt"}}
        last == CHOOSE i \in dots : \A j \in dots : j <= i
    IN  IF dots = {} \/ last = 1 THEN name ELSE SubSeq(name, 1, last - 1)

\* f.with_name(f.stem + '_transformed.xlsx')
save_path(f) == <<f[1], stem(f[2]) \o TransformedSuffix>>

\* read_excel_any(f, sheet_name='MianDan'): the raw grid, or the exception.
\* Both engines read the same grid; the suffix only picks the engine.
read_excel_any(entry) ==
    IF entry.kind = "book" THEN Value(entry.body)
    ELSE IF entry.kind \in {"nosheet", "out"}
    THEN Raised("ValueError: Worksheet named MianDan not found")
    ELSE Raised("ReadFailure")

OkLine(f, save, n) == [ok |-> TRUE, name |-> f[2], out |-> save[2], n |-> n, err |-> "none"]
FailLine(f, e) == [ok |-> FALSE, name |-> f[2], out |-> <<>>, n |-> 0, err |-> e]

\* out_df.to_excel(save_path, index=False): the headers, then the records
WriteFile(fsys, path, entry) ==
    [q \in (DOMAIN fsys) \cup {path} |-> IF q = path THEN entry ELSE fsys[q]]

CanWrite(fsys, unw, path) ==
    /\ path \notin unw
    /\ (path \in DOMAIN fsys => fsys[path].kind # "dir")

\* process_file that opens the output before it has located the header.
process_file_write_first(prog, fsys, unw, f) ==
    LET read == read_excel_any(fsys[f])
        t == IF read.exc = "none" THEN Transform(prog, read.val) ELSE Raised(read.exc)
        save == save_path(f)
    IN  IF ~CanWrite(fsys, unw, save)
        THEN [msg |-> Raised("WriteFailure"), fs |-> fsys]
        ELSE IF t.exc # "none"
        THEN [msg |-> Raised(t.exc), fs |-> WriteFile(fsys, save, OutBook(<<OUT_HEADERS>>))]
        ELSE [msg |-> Value(OkLine(f, save, Len(t.val))),
              fs |-> WriteFile(fsys, save, OutBook(<<OUT_HEADERS>> \o t.val))]

\* process_file (the try block of ExcleTransform.py's loop): the message
\* returned or the exception raised, and the file system it leaves.
process_file(prog, fsys, unw, f) ==
    LET read == read_excel_any(fsys[f])
        t == IF read.exc = "none" THEN Transform(prog, read.val) ELSE Raised(read.exc)
        save == save_path(f)
    IN  IF t.exc # "none"
        THEN [msg |-> Raised(t.exc), fs |-> fsys]
        ELSE IF ~CanWrite(fsys, unw, save)
        THEN [msg |-> Raised("WriteFailure"), fs |-> fsys]
        ELSE [msg |-> Value(OkLine(f, save, Len(t.val))),
              fs |-> WriteFile(fsys, save, OutBook(<<OUT_HEADERS>> \o t.val))]

(***************************************************************************)
(* The rows the specifications build sheets from, 15 cells wide.            *)
(***************************************************************************)
T(tok) == StrCell(<<tok>>)

InsertAt(row, pos, v) == SubSeq(row, 1, pos) \o <<v>> \o SubSeq(row, pos + 1, Len(row))

HeaderCells == [i \in 1..Len(IN_HEADERS_EXPECT) |-> StrCell(IN_HEADERS_EXPECT[i])]

\* The usual layout: an unnamed unit column right of the quantity, one empty
\* trailing column.
HdrPlain == InsertAt(InsertAt(HeaderCells, 5, Null), 14, Null)

\* Filler cells among the headers: whitespace first, an 'UNNAMED: 6' placeholder
\* right of the quantity.
HdrFiller ==
    InsertAt(InsertAt(HeaderCells, 0, StrCell(<<" ">>)), 6,
             StrCell(<<" ", "UNNAMED", ":", "6">>))

\* Headers typed with stray whitespace around one name.
HdrPadQty == [HdrPlain EXCEPT ![5] = StrCell(<<" ", "ShuLiangJiDanWei">>)]
HdrPadCur == [HdrPlain EXCEPT ![12] = StrCell(<<"BiZhi", " ">>)]

\* Near misses: an extra value, a missing one, two swapped.
HdrExtra == [HdrPlain EXCEPT ![15] = T("BeiZhu")]
HdrShort == [HdrPlain EXCEPT ![14] = Null]
HdrSwap == [HdrPlain EXCEPT ![10] = HdrPlain[11], ![11] = HdrPlain[10]]

Data1 ==
    << IntCell(1), StrCell(<<"8", "5", "0", "1">>), StrCell(<<" ", "Motor", " ">>),
       Null, IntCell(10), T("PCS"), T("SZ"), T("US"), T("CN"),
       StrCell(<<"1", ",", "2", "3", "4", ".", "5">>), StrCell(<<"$", "1", "0">>),
       T("USD"), T("0"), T("0"), Null >>

Data2 ==
    << IntCell(2), StrCell(<<"8", "5", "0", "2">>), T("Pump"), T("DC"),
       StrCell(<<"5">>), T("SET"), Null, T("DE"), T("CN"),
       StrCell(<<"N", "/", "A">>), StrCell(<<"-", "0", ".", "1">>),
       StrCell(<<" ", "usd">>), T("1"), T("1"), T("x") >>

Blank == [j \in 1..15 |-> Null]

\* Not blank for dropna (a cell is a string), empty for the header locator.
Spaces == [Blank EXCEPT ![4] = StrCell(<<" ">>)]

\* The trailing summary row of the source format.
Summary == [Blank EXCEPT ![1] = T("HeJi"), ![11] = StrCell(<<"1", "2", "4", "4">>)]

RowKinds ==
    { HdrPlain, HdrFiller, HdrPadQty, HdrPadCur, HdrExtra, HdrShort, HdrSwap,
      Data1, Data2, Blank, Spaces, Summary }

MaxRows == 3

\* The end-to-end scenario: header at index 5, data at 6..10, summary at 11.
ExampleSheet ==
    << [Blank EXCEPT ![1] = T("MianDan")], Blank, Spaces, Blank, Blank, HdrPlain,
       Data1, Data2, Blank, Data2, Data1, Summary >>

Sheets == UNION {[1..n -> RowKinds] : n \in 1..MaxRows} \cup {ExampleSheet}

(***************************************************************************)
(* clean_money_keep2 called on its own                                     *)
(***************************************************************************)
MaxMoneyLen == 4

MoneyChars == {"0", "1", "9", ".", "-", "+", ",", "$", " ", "A"}

MoneyTexts == UNION {[1..n -> MoneyChars] : n \in 0..MaxMoneyLen}

\* The inputs the specification's examples name.
MoneyExamples ==
    { <<"1", ",", "2", "3", "4", ".", "5">>, <<"$", "1", "0">>, <<>>,
      <<"N", "/", "A">>, <<"-", "0", ".", "1">> }

MoneyCells ==
    {Null} \cup {StrCell(s) : s \in MoneyTexts \cup MoneyExamples}
           \cup {IntCell(n) : n \in {-10, 0, 7, 1234}}

Pending == [done |-> FALSE, val |-> <<>>]
Returned(v) == [done |-> TRUE, val |-> v]

NoScan ==
    /\ fs = <<>> /\ unwritable = {} /\ pc = "idle" /\ todo = {}
    /\ results = <<>> /\ run = 0 /\ visited = <<>> /\ fsAtEnd = <<>>
    /\ search_dirs = <<>> /\ base = 0

InitMoney ==
    /\ variant = "ExcelTransform"
    /\ arg \in MoneyCells
    /\ ret = Pending
    /\ NoScan

CallCleanMoney ==
    /\ ~ret.done
    /\ ret' = Returned(clean_money_keep2(arg))
    /\ UNCHANGED <<variant, arg, scanVars>>

NextMoney == CallCleanMoney

SpecMoney == InitMoney /\ [][NextMoney]_vars

(***************************************************************************)
(* C7: money normalization                                                 *)
(***************************************************************************)
\* The cell's text before any trimming: '' for a missing cell.
C7_Text(v) == IF v.t = "null" THEN <<>> ELSE IF v.t = "int" THEN PyStr(v) ELSE v.s

\* The text with every comma, dollar sign and whitespace character removed.
C7_Kept(s) == SelectSeq(s, LAMBDA c : c \notin {",", "$", " ", "\t"})

C7_Body(x) == IF x # <<>> /\ x[1] \in {"+", "-"} THEN SubSeq(x, 2, Len(x)) ELSE x

C7_Count(s, set) == Cardinality({i \in 1..Len(s) : s[i] \in set})

\* An optional sign, then digits around at most one decimal point, with at least
\* one digit on either side of it: "12", "1.5", "1.", ".5", but not ".", "+", "".
C7_Numeric(x) ==
    LET b == C7_Body(x)
    IN  /\ \A i \in 1..Len(b) : b[i] \in Digits \cup {"."}
        /\ C7_Count(b, {"."}) <= 1
        /\ C7_Count(b, Digits) >= 1

\* The claim's pattern: an optional sign, one or more digits, and optionally a
\* decimal point followed by digits (read generously: "1." is let through).
C7_ClaimNumeric(x) == C7_Numeric(x) /\ C7_Body(x)[1] \in Digits

\* A two-decimal-place string: -?d+.dd with no superfluous leading zero.
C7_TwoDecimals(out) ==
    LET b == IF out # <<>> /\ out[1] = "-" THEN SubSeq(out, 2, Len(out)) ELSE out
        n == Len(b)
    IN  /\ n >= 4
        /\ b[n - 2] = "."
        /\ \A i \in (1..n) \ {n - 2} : b[i] \in Digits
        /\ (n = 4 \/ b[1] # "0")

RECURSIVE C7_Pow10(_)
C7_Pow10(k) == IF k = 0 THEN 1 ELSE 10 * C7_Pow10(k - 1)

RECURSIVE C7_Value(_)
C7_Value(ds) == IF ds = <<>> THEN 0 ELSE 10 * C7_Value(SubSeq(ds, 1, Len(ds) - 1)) + DigitVal(ds[Len(ds)])

\* out is the value of x to the nearest hundredth, and keeps x's minus sign.
C7_Nearest(x, out) ==
    LET b == C7_Body(x)
        digits == SelectSeq(b, LAMBDA c : c \in Digits)
        point == IF \E i \in 1..Len(b) : b[i] = "."
                 THEN CHOOSE i \in 1..Len(b) : b[i] = "." ELSE Len(b) + 1
        nfrac == Len(digits) - (point - 1)
        m == IF nfrac > 2 THEN nfrac ELSE 2
        X == C7_Value(digits) * C7_Pow10(m - nfrac)
        R == C7_Value(SelectSeq(out, LAMBDA c : c \in Digits)) * C7_Pow10(m - 2)
        d == IF X > R THEN X - R ELSE R - X
    IN  /\ 2 * d <= C7_Pow10(m - 2)
        /\ (out[1] = "-") <=> (x[1] = "-")

\* C7 as amended: clean_money_keep2 removes every comma, dollar sign and
\* whitespace character; what remains is replaced by its value to two decimal
\* places exactly when it is an optional sign followed by digits with at most one
\* decimal point and at least one digit (so ".5" -> "0.50" and "5." -> "5.00"
\* too); every other remainder is returned as it is.
C7_MoneyNormalization ==
    ret.done =>
        LET x == C7_Kept(C7_Text(arg))
        IN  IF C7_Numeric(x)
            THEN C7_TwoDecimals(ret.val) /\ C7_Nearest(x, ret.val)
            ELSE ret.val = x

\* C7 as claimed: the remainder is reformatted exactly when it is an optional
\* sign, one or more digits and optionally a decimal point followed by digits;
\* every other remainder is returned unchanged.
C7_AsClaimed ==
    ret.done =>
        LET x == C7_Kept(C7_Text(arg))
        IN  IF C7_ClaimNumeric(x)
            THEN C7_TwoDecimals(ret.val) /\ C7_Nearest(x, ret.val)
            ELSE ret.val = x

\* '1,234.5' has been normalized to '1234.50'.
C7_Witness ==
    /\ ret.done
    /\ arg = StrCell(<<"1", ",", "2", "3", "4", ".", "5">>)
    /\ ret.val = <<"1", "2", "3", "4", ".", "5", "0">>

(***************************************************************************)
(* find_header_row called on its own                                       *)
(***************************************************************************)
InitHeader ==
    /\ variant = "ExcelTransform"
    /\ arg \in Sheets
    /\ ret = Pending
    /\ NoScan

CallFindHeaderRow ==
    /\ ~ret.done
    /\ ret' = Returned(find_header_row(arg, IN_HEADERS_EXPECT))
    /\ UNCHANGED <<variant, arg, scanVars>>

NextHeader == CallFindHeaderRow

SpecHeader == InitHeader /\ [][NextHeader]_vars

(***************************************************************************)
(* C2: the header locator                                                  *)
(***************************************************************************)
\* The cell's text between its first and last non-whitespace token; empty for
\* a missing or whitespace-only cell and for 'unnamed...' in any letter case.
C2_Norm(v) ==
    LET s == IF v.t = "null" THEN <<>> ELSE PyStr(v)
        ink == {i \in 1..Len(s) : s[i] \notin {" ", "\t"}}
        lo == CHOOSE i \in ink : \A j \in ink : i <= j
        hi == CHOOSE i \in ink : \A j \in ink : j <= i
    IN  IF ink = {} THEN <<>>
        ELSE IF s[lo] \in {"unnamed", "Unnamed", "UNNAMED"} THEN <<>>
        ELSE SubSeq(s, lo, hi)

\* The row's non-empty normalized cells are the 13 expected headers, in order.
C2_Matches(row) ==
    LET full == {j \in 1..Len(row) : C2_Norm(row[j]) # <<>>}
    IN  /\ Cardinality(full) = Len(IN_HEADERS_EXPECT)
        /\ \A j \in full :
              C2_Norm(row[j]) = IN_HEADERS_EXPECT[Cardinality({k \in full : k <= j})]

\* C2: find_header_row returns the smallest index of a row whose non-empty
\* normalized cells equal the 13 expected headers, and raises the header-not-found
\* KeyError when no row does.
C2_FirstMatchingRow ==
    ret.done =>
        LET hits == {i \in 0..(Len(arg) - 1) : C2_Matches(arg[i + 1])}
        IN  IF hits = {} THEN ret.val = Raised("KeyError: header not found")
            ELSE /\ ret.val.exc = "none"
                 /\ ret.val.val \in hits
                 /\ \A i \in hits : ret.val.val <= i

\* A header row with filler cells is found at index 1, below a row with two
\* headers swapped and above a second matching row.
C2_Witness ==
    /\ ret.done
    /\ arg = <<HdrSwap, HdrFiller, HdrPlain>>
    /\ ret.val = Value(1)

\* No row matches (an extra value, a missing one) and the call has raised.
C2_WitnessNotFound ==
    /\ ret.done
    /\ arg = <<HdrExtra, HdrShort, Data1>>
    /\ ret.val.exc # "none"

(***************************************************************************)
(* process_file called on one file                                         *)
(***************************************************************************)
SourceFile == <<"app", <<"a", ".xls", "x">>>>

InitFile ==
    /\ variant \in Variants
    /\ arg = SourceFile
    /\ ret = Pending
    /\ \E sheet \in Sheets : fs = (SourceFile :> Book(sheet))
    /\ unwritable = {} /\ pc = "idle" /\ todo = {}
    /\ results = <<>> /\ run = 0 /\ visited = <<>> /\ fsAtEnd = <<>>
    /\ search_dirs = <<>> /\ base = 0

CallProcessFile ==
    /\ ~ret.done
    /\ LET r == process_file(variant, fs, unwritable, arg)
       IN  /\ ret' = Returned(r.msg)
           /\ fs' = r.fs
    /\ UNCHANGED <<variant, arg, unwritable, pc, todo, results, run, search_dirs,
                   base, visited, fsAtEnd>>

NextFile == CallProcessFile

SpecFile == InitFile /\ [][NextFile]_vars

(***************************************************************************)
(* C1, C9, C10: the data block of one file                                 *)
(***************************************************************************)
\* The sheet of the source file (process_file never writes to its source).
F_Sheet == fs[SourceFile].body

\* The rows the header locator's contract accepts, by index.
F_HeaderRows == {i \in 0..(Len(F_Sheet) - 1) : C2_Matches(F_Sheet[i + 1])}

\* h: the Header Row index
F_h == LET rows == F_HeaderRows IN CHOOSE i \in rows : \A j \in rows : i <= j

\* L: the index of the last row with a non-null cell
F_L ==
    LET full == {i \in 0..(Len(F_Sheet) - 1) :
                    \E j \in 1..Len(F_Sheet[i + 1]) : F_Sheet[i + 1][j].t # "null"}
    IN  CHOOSE i \in full : \A j \in full : j <= i

\* The columns the extraction looks up by name (the ten base columns and the
\* quantity column) all occur as cell values of the header row.
F_ColumnsPresent(hdr) ==
    \A c \in base_cols \cup {<<"ShuLiangJiDanWei">>} :
        \E j \in 1..Len(hdr) : hdr[j] = StrCell(c)

\* The trimmed display text of a cell.
F_Text(v) ==
    LET s == IF v.t = "null" THEN <<>> ELSE PyStr(v)
        ink == {i \in 1..Len(s) : s[i] \notin {" ", "\t"}}
    IN  IF ink = {} THEN <<>>
        ELSE SubSeq(s, CHOOSE i \in ink : \A j \in ink : i <= j,
                       CHOOSE i \in ink : \A j \in ink : j <= i)

\* The trimmed text of the row's cell under the header cell `label'.
F_Under(hdr, row, label) ==
    F_Text(row[CHOOSE j \in 1..Len(row) : hdr[j] = StrCell(label)])

F_Output == fs[save_path(SourceFile)]

\* process_file has succeeded and the Output Sheet written has one header row
\* and n records, record k made from the sheet row of index h + k.
F_RecordsAre(h, n) ==
    LET sheet == F_Sheet
        hdr == sheet[h + 1]
        out == F_Output.body
    IN  /\ ret.val.exc = "none"
        /\ ret.val.val.ok /\ ret.val.val.n = n
        /\ save_path(SourceFile) \in DOMAIN fs
        /\ F_Output.kind = "out"
        /\ Len(out) = 1 + n
        /\ out[1] = OUT_HEADERS
        /\ \A k \in 1..n :
              /\ out[1 + k][1] = F_Under(hdr, sheet[h + k + 1], <<"XiangHao">>)
              /\ out[1 + k][2] = F_Under(hdr, sheet[h + k + 1], <<"ShangPinBianMa">>)
              /\ out[1 + k][6] = F_Under(hdr, sheet[h + k + 1], <<"YuanChanGuo">>)
              /\ out[1 + k][9] = <<"ZhaoZhang">>

C9_EmptyDataBlockSucceeds ==
    (ret.done /\ F_HeaderRows # {} /\ F_L <= F_h + 1) =>
        /\ F_RecordsAre(F_h, 0)
        /\ F_Output.body = <<OUT_HEADERS>>

\* C10 as claimed: once find_header_row has accepted a row, process_file does
\* not fail on looking up the quantity column or the base columns.
C10_AcceptedHeaderHasColumns ==
    (ret.done /\ F_HeaderRows # {}) =>
        ret.val.exc \notin {"ValueError: not in list", "KeyError: not in index"}

(***************************************************************************)
(* The scan: main() of ExcelTransform.py, the module-level loop of          *)
(* ExcleTransform.py                                                        *)
(***************************************************************************)
AppDir == "app"     \* the directory of the program (BASE_DIR, app_dir)

\* Directories that exist.
ExistingDirs == {"app", "cwd"}

NoArgv == [given |-> FALSE, dir |-> "", name |-> <<>>]
ArgvDir(d) == [given |-> TRUE, dir |-> d, name |-> <<>>]
ArgvFile(d, name) == [given |-> TRUE, dir |-> d, name |-> name]

RECURSIVE Uniq(_, _)
Uniq(dirs, seen) ==
    IF dirs = <<>> THEN <<>>
    ELSE IF Head(dirs) \in ExistingDirs /\ Head(dirs) \notin seen
    THEN <<Head(dirs)>> \o Uniq(Tail(dirs), seen \cup {Head(dirs)})
    ELSE Uniq(Tail(dirs), seen)

\* candidate_dirs(): the argument's directory, the working directory, the
\* program's directory; existing ones only, each once.  (p.is_dir() or not,
\* the directory taken from a path <<dir, name>> is dir unless the argument
\* is itself an existing directory, written ArgvDir.)
candidate_dirs(argv, cwd) ==
    Uniq((IF argv.given THEN <<argv.dir>> ELSE <<>>) \o <<cwd, AppDir>>, {})

\* base.glob('*.xls*'): the entries of the directory whose name matches
glob(fsys, d) == {f \in DOMAIN fsys : f[1] = d /\ glob_match(f[2])}

\* The test that skips a glob entry.
skipped(fsys, f) ==
    fsys[f].kind = "dir" \/ ends_transformed(f[2]) \/ starts_lock(f[2])

MaxRuns == 2

\* A new run of the program: results = [] and the loop over the directories
\* begins.
StartMain ==
    /\ pc \in {"idle", "done"}
    /\ run < MaxRuns
    /\ pc' = "scan"
    /\ results' = <<>>
    /\ base' = 0
    /\ todo' = {}
    /\ visited' = Append(visited, {})
    /\ UNCHANGED <<variant, arg, ret, fs, unwritable, run, search_dirs, fsAtEnd>>

\* for base in SEARCH_DIRS: the next directory is listed.
NextBase ==
    /\ pc = "scan" /\ todo = {}
    /\ base < Len(search_dirs)
    /\ base' = base + 1
    /\ todo' = glob(fs, search_dirs[base + 1])
    /\ UNCHANGED <<variant, arg, ret, fs, unwritable, pc, results, run,
                   search_dirs, visited, fsAtEnd>>

\* The body of the loop for a failing file when the except clause re-raises:
\* the run ends there.
VisitNoCatch(f) ==
    /\ pc = "scan" /\ f \in todo
    /\ IF skipped(fs, f)
       THEN /\ todo' = todo \ {f}
            /\ UNCHANGED <<fs, results, visited, base>>
       ELSE LET r == process_file(variant, fs, unwritable, f)
            IN  /\ fs' = r.fs
                /\ visited' = [visited EXCEPT ![Len(visited)] = @ \cup {f}]
                /\ IF r.msg.exc = "none"
                   THEN /\ results' = Append(results, r.msg.val)
                        /\ todo' = todo \ {f}
                        /\ base' = base
                   ELSE /\ results' = results
                        /\ todo' = {}
                        /\ base' = Len(search_dirs)
    /\ UNCHANGED <<variant, arg, ret, unwritable, pc, run, search_dirs, fsAtEnd>>

\* The body of the loop for one glob entry, taken in any order: skip it, or
\* process it and append its status line.
Visit(f) ==
    /\ pc = "scan" /\ f \in todo
    /\ todo' = todo \ {f}
    /\ IF skipped(fs, f)
       THEN UNCHANGED <<fs, results, visited>>
       ELSE LET r == process_file(variant, fs, unwritable, f)
            IN  /\ fs' = r.fs
                /\ results' = Append(results,
                                     IF r.msg.exc = "none" THEN r.msg.val
                                     ELSE FailLine(f, r.msg.exc))
                /\ visited' = [visited EXCEPT ![Len(visited)] = @ \cup {f}]
    /\ UNCHANGED <<variant, arg, ret, unwritable, pc, run, search_dirs, base, fsAtEnd>>

\* The loops are over: the lines (or the usage text) are printed and the
\* program exits.
Finish ==
    /\ pc = "scan" /\ todo = {}
    /\ base = Len(search_dirs)
    /\ pc' = "done"
    /\ run' = run + 1
    /\ fsAtEnd' = Append(fsAtEnd, fs)
    /\ UNCHANGED <<variant, arg, ret, fs, unwritable, todo, results,
                   search_dirs, base, visited>>

(***************************************************************************)
(* The directories the scan starts from                                    *)
(***************************************************************************)
Name_a_xls == <<"a", ".xls">>
Name_a_xlsx == <<"a", ".xls", "x">>
Name_a_out == <<"a", "_transformed", ".xls", "x">>
Name_lock == <<"~$", "a", ".xls", "x">>
Name_dir == <<"d", ".xls", "x">>
Name_notes == <<"notes", ".txt">>

Good1 == Book(<<HdrPlain, Data1, Summary>>)
Good2 == Book(<<Blank, HdrFiller, Data2, Data1, Summary>>)
NoHeader == Book(<<HdrSwap, Data1, Summary>>)
PaddedHeader == Book(<<HdrPadCur, Data1, Summary>>)
Stale == OutBook(<<OUT_HEADERS, [j \in 1..Len(OUT_HEADERS) |-> <<"old">>]>>)

Absent == [kind |-> "absent", body |-> <<>>]

\* The file system with the entries given, the absent ones left out.
FileSystem(entries) ==
    [f \in {g \in DOMAIN entries : entries[g].kind # "absent"} |-> entries[f]]

InitialFileSystems ==
    { FileSystem( (<<"app", Name_a_xls>> :> e1) @@ (<<"app", Name_a_xlsx>> :> e2)
                  @@ (<<"app", Name_a_out>> :> e3) @@ (<<"cwd", Name_a_xlsx>> :> e4)
                  @@ (<<"cwd", Name_lock>> :> Corrupt) @@ (<<"cwd", Name_dir>> :> Dir)
                  @@ (<<"cwd", Name_notes>> :> Corrupt) ) :
        e1 \in {Absent, Good1, NoHeader, Corrupt},
        e2 \in {Absent, Good2, PaddedHeader, NoSheetBook},
        e3 \in {Absent, Stale},
        e4 \in {Absent, Good1} }

Argvs == {NoArgv, ArgvDir("cwd"), ArgvFile("app", Name_a_xlsx), ArgvFile("gone", Name_a_xlsx)}

Init ==
    /\ variant \in Variants
    /\ \E argv \in Argvs, cwd \in ExistingDirs :
          search_dirs = IF variant = "ExcelTransform"
                        THEN candidate_dirs(argv, cwd) ELSE <<AppDir>>
    /\ fs \in InitialFileSystems
    /\ unwritable \in {{}, {<<"app", Name_a_out>>}}
    /\ arg = <<>> /\ ret = Pending
    /\ pc = "idle" /\ todo = {} /\ results = <<>> /\ run = 0 /\ base = 0
    /\ visited = <<>> /\ fsAtEnd = <<>>

Next ==
    \/ StartMain
    \/ NextBase
    \/ \E f \in todo : Visit(f)
    \/ Finish

Spec == Init /\ [][Next]_vars

(***************************************************************************)
(* C3 .. C6: the scan                                                      *)
(***************************************************************************)
\* The candidate files: in a scanned directory, named *.xls*, not a
\* directory, not named ..._transformed.xlsx, not named ~$...
S_Candidates ==
    {f \in DOMAIN fs :
        /\ \E i \in 1..Len(search_dirs) : search_dirs[i] = f[1]
        /\ \E i \in 1..Len(f[2]) : f[2][i] = ".xls"
        /\ fs[f].kind # "dir"
        /\ ~(\E n \in 1..Len(f[2]) : f[2] = SubSeq(f[2], 1, n) \o <<"_transformed", ".xls", "x">>)
        /\ f[2][1] # "~$"}

\* <stem>_transformed.xlsx beside the source.
S_Out(f) ==
    LET n == f[2]
        dot == CHOOSE i \in 1..Len(n) :
                  n[i] = ".xls" /\ \A j \in (i + 1)..Len(n) : n[j] # ".xls"
    IN  <<f[1], SubSeq(n, 1, dot - 1) \o <<"_transformed", ".xls", "x">>>>

\* The file can be transformed: a workbook whose sheet has a header row with
\* the columns looked up by name, and an output path that can be written.
S_Transforms(f) ==
    /\ fs[f].kind = "book"
    /\ LET sheet == fs[f].body
           rows == {i \in 1..Len(sheet) : C2_Matches(sheet[i])}
       IN  /\ rows # {}
           /\ F_ColumnsPresent(sheet[CHOOSE i \in rows : \A j \in rows : i <= j])
    /\ S_Out(f) \notin unwritable

S_Lines(name, ok) == {i \in 1..Len(results) : results[i].name = name /\ results[i].ok = ok}

\* C3: when a run ends, the result list holds exactly one status line per
\* candidate file, whatever failed on the way: a success line for each file
\* that can be transformed and a failure line for each of the others, and
\* every candidate file has been handed to process_file.
C3_OneLinePerCandidate ==
    pc = "done" =>
        LET cand == S_Candidates
        IN  /\ Len(results) = Cardinality(cand)
            /\ visited[Len(visited)] = cand
            /\ \A f \in cand :
                  /\ Cardinality(S_Lines(f[2], TRUE))
                        = Cardinality({g \in cand : g[2] = f[2] /\ S_Transforms(g)})
                  /\ Cardinality(S_Lines(f[2], FALSE))
                        = Cardinality({g \in cand : g[2] = f[2] /\ ~S_Transforms(g)})

\* A run has ended in which a file failed and a file after it was transformed.
C3_Witness ==
    /\ pc = "done"
    /\ \E i, j \in 1..Len(results) : i < j /\ ~results[i].ok /\ results[j].ok

\* The Output Sheet of the sheet: the 9 headers, then one record per data row.
S_IsOutputOf(sheet, entry) ==
    LET rows == {i \in 0..(Len(sheet) - 1) : C2_Matches(sheet[i + 1])}
        h == CHOOSE i \in rows : \A j \in rows : i <= j
        full == {i \in 0..(Len(sheet) - 1) :
                    \E j \in 1..Len(sheet[i + 1]) : sheet[i + 1][j].t # "null"}
        L == CHOOSE i \in full : \A j \in full : j <= i
        n == IF L > h THEN L - h - 1 ELSE 0
    IN  /\ entry.kind = "out"
        /\ Len(entry.body) = 1 + n
        /\ entry.body[1] = OUT_HEADERS
        /\ \A k \in 1..n :
              entry.body[1 + k][1] = F_Under(sheet[h + 1], sheet[h + k + 1], <<"XiangHao">>)

\* C4: processing one file is all-or-nothing.  When the file's status line is
\* a failure that is not a write failure, the file system is left as it was;
\* when it is a success, <stem>_transformed.xlsx holds the complete Output
\* Sheet of the source and nothing else has changed.
C4_AllOrNothing ==
    [][ (pc = "scan" /\ todo # {} /\ Len(results') = Len(results) + 1) =>
            LET f == CHOOSE g \in todo : g \notin todo'
                line == results'[Len(results')]
            IN  IF line.ok
                THEN /\ DOMAIN fs' = (DOMAIN fs) \cup {S_Out(f)}
                     /\ \A g \in DOMAIN fs : g # S_Out(f) => fs'[g] = fs[g]
                     /\ S_IsOutputOf(fs[f].body, fs'[S_Out(f)])
                ELSE line.err # "WriteFailure" => fs' = fs ]_vars

\* app/a.xls has failed for want of a header row and the earlier
\* app/a_transformed.xlsx is still there.
C4_Witness ==
    /\ \E i \in 1..Len(results) :
          results[i] = FailLine(<<"app", Name_a_xls>>, "KeyError: header not found")
    /\ <<"app", Name_a_out>> \in DOMAIN fs
    /\ fs[<<"app", Name_a_out>>] = Stale

\* C5 as claimed: no two candidate files share an output path, so when a run
\* ends the output file of every file that can be transformed holds that
\* file's Output Sheet, in whatever order the files were taken.
C5_OutputsIndependent ==
    pc = "done" =>
        \A f \in S_Candidates :
            S_Transforms(f) => S_IsOutputOf(fs[f].body, fs[S_Out(f)])

\* C6 as claimed: the second run hands the same files to process_file as the
\* first, and leaves every file with the content it had after the first.
C6_SecondRunChangesNothing ==
    (pc = "done" /\ run = 2) =>
        /\ visited[2] = visited[1]
        /\ fsAtEnd[2] = fsAtEnd[1]

(***************************************************************************)
(* One Output Record made from one data row under the usual header row     *)
(***************************************************************************)
PriceCells ==
    { Null, IntCell(7), StrCell(<<>>),
      StrCell(<<"1", ",", "2", "3", "4", ".", "5">>), StrCell(<<"$", "1", "0">>),
      StrCell(<<"N", "/", "A">>), StrCell(<<"-", "0", ".", "1">>),
      StrCell(<<".", "5">>), StrCell(<<" ", "9", ".", "9", "9", "9", " ">>),
      StrCell(<<"1", " ", "0">>), StrCell(<<"USD">>) }

CurrencyCells ==
    { Null, StrCell(<<"USD">>), StrCell(<<"usd">>), StrCell(<<" ", "USD", " ">>),
      StrCell(<<"USD", "T">>), StrCell(<<"A", "USD">>), StrCell(<<"USD", " ", "USD">>),
      StrCell(<<"EUR">>), StrCell(<<"MeiYuan">>), IntCell(0) }

InitRecord ==
    /\ variant \in Variants
    /\ \E up \in PriceCells, tp \in PriceCells, cur \in CurrencyCells :
          arg = [Data1 EXCEPT ![10] = up, ![11] = tp, ![12] = cur]
    /\ ret = Pending
    /\ NoScan

CallOutRecord ==
    /\ ~ret.done
    /\ ret' = Returned(OutRecord(variant, HdrPlain, arg))
    /\ UNCHANGED <<variant, arg, scanVars>>

NextRecord == CallOutRecord

SpecRecord == InitRecord /\ [][NextRecord]_vars

(***************************************************************************)
(* C8: the price block                                                     *)
(***************************************************************************)
\* The trimmed currency text, the value 'USD' alone replaced by 'MeiYuan'.
C8_Relabel(v) == IF F_Text(v) = <<"USD">> THEN <<"MeiYuan">> ELSE F_Text(v)

C8_Block(sep) ==
    ret.val[5] = clean_money_keep2(arg[10]) \o sep \o clean_money_keep2(arg[11])
                     \o <<" ">> \o C8_Relabel(arg[12])

\* C8 as amended: the price block is the money-normalized unit price, a
\* separator, the money-normalized total price, a single space and the
\* relabeled currency (the trimmed text, exactly 'USD' replaced); the separator
\* is a single space in ExcelTransform.py and ' / ' in ExcleTransform.py.
C8_PriceBlock ==
    ret.done =>
        C8_Block(IF variant = "ExcelTransform" THEN <<" ">> ELSE <<" ", "/", " ">>)

\* C8 as claimed: the separator is a single space in every Output Record.
C8_AsClaimed == ret.done => C8_Block(<<" ">>)

\* ExcelTransform.py has made '1234.50 10.00 MeiYuan' from '1,234.5', '$10'
\* and ' USD '.
C8_Witness ==
    /\ ret.done
    /\ variant = "ExcelTransform"
    /\ arg[12] = StrCell(<<" ", "USD", " ">>)
    /\ ret.val[5] = <<"1", "2", "3", "4", ".", "5", "0", " ",
                      "1", "0", ".", "0", "0", " ", "MeiYuan">>

====
